---- MODULE Spec2Model ----
(***************************************************************************)
(* State-machine model of the satyanaash test execution engine:            *)
(* TSat::exec -> TestSuite::exec -> TestGroup::exec -> TestCase::run,      *)
(* with the per-group TestCtx (bearer token + JS runtime) and the event    *)
(* channel.  Option<T> values are sequences of length 0 (None) or 1.       *)
(***************************************************************************)
EXTENDS Integers, Sequences, FiniteSets, TLC

\* Largest number of rows (past the start_row check) one run reads.
MaxRows == 3
\* Largest repeatCount a config cell holds in the modelled workbooks.
MaxRepeat == 2

None == <<>>
Some(x) == <<x>>

(***************************************************************************)
(* JSON values (serde_json::Value) and the script language of the cells.   *)
(***************************************************************************)
JNull == [t |-> "null"]
JBool(b) == [t |-> "bool", b |-> b]
JNum(n) == [t |-> "num", n |-> n]
JStr(s) == [t |-> "str", s |-> s]
JObj(f) == [t |-> "obj", f |-> f]

\* serde_json Value::get(key): a member of an object, None for anything else.
JsonGet(value, key) ==
    IF value.t = "obj" /\ key \in DOMAIN value.f THEN Some(value.f[key]) ELSE None

\* Value::as_str / Value::as_bool
AsStr(value) == IF value.t = "str" THEN Some(value.s) ELSE None
AsBool(value) == IF value.t = "bool" THEN Some(value.b) ELSE None

\* Strings of the name/url/payload cells: sequences of segments, a literal
\* text, a {{var}} placeholder or a {{env:X}} placeholder.
Lit(s) == [k |-> "lit", s |-> s]
PhJs(v) == [k |-> "js", s |-> v]
PhEnv(v) == [k |-> "env", s |-> v]
Kw(w) == [k |-> "kw", s |-> w]                            \* $UUID, $RandomName, ...

\* Scripts of the pre/post cells.
ScSet(v, x) == [op |-> "set", var |-> v, val |-> x]      \* SAT.globals.v = 'x'
ScThrow == [op |-> "throw", var |-> "", val |-> ""]       \* throw new Error()
ScSyntax == [op |-> "syntax", var |-> "", val |-> ""]     \* does not compile
ScStatusIs == [op |-> "status200", var |-> "", val |-> ""] \* SAT.tester('ok', () => SAT.response.status === 200)
ScGlobalIs(v, x) == [op |-> "globalIs", var |-> v, val |-> x] \* SAT.globals.v === 'x'
ScNumber == [op |-> "number", var |-> "", val |-> ""]     \* 1
ScSetNum(v) == [op |-> "setNum", var |-> v, val |-> ""]   \* SAT.globals.v = 1
ScSetObj(v) == [op |-> "setObj", var |-> v, val |-> ""]   \* SAT.globals.v = {}
\* SAT.globals.v = SAT.globals.v === 'x' ? 'y' : 'x'
ScToggle(v) == [op |-> "toggle", var |-> v, val |-> ""]
\* SAT.tester('name', cb) with a callback that returns true, false, a string
\* or nothing, or that throws.
ScTester(name, cb) == [op |-> "tester", var |-> name, val |-> cb]

(***************************************************************************)
(* JsEngine: the runtime holds SAT.globals and SAT.response.               *)
(***************************************************************************)
Vars == {"v"}

\* JsEngine::new + initialize_globals: SAT = {}; SAT.globals = {}; nothing
\* defines SAT.testName.
JsEngine_new == [globals |-> [x \in Vars |-> None], response |-> None, testName |-> None]

\* v8_value_to_serde_json: null, booleans and numbers keep their type; every
\* other value, objects included, passes the to_rust_string_lossy test and
\* becomes the string of its ToString conversion.
v8_value_to_serde_json(value) ==
    IF value.t = "obj" THEN JStr("[object Object]") ELSE value

\* SAT.tester as initialize_globals defines it: let result = cb(); return
\* result === true ? true : false.  An exception of cb leaves through tester.
SAT_tester(rt, name, cb) ==
    [threw |-> cb = "throw", val |-> JBool(cb = "true"), rt |-> rt]

\* JsEngine::eval: compile(...).unwrap() panics on a syntax error; a script
\* that throws makes run() return None, which eval maps to Ok(Null).
JsEval(rt, sc) ==
    CASE sc.op = "syntax" -> [panic |-> TRUE, val |-> JNull, rt |-> rt]
      [] sc.op = "throw" -> [panic |-> FALSE, val |-> JNull, rt |-> rt]
      [] sc.op = "set" ->
            [panic |-> FALSE, val |-> JStr(sc.val),
             rt |-> [rt EXCEPT !.globals[sc.var] = Some(JStr(sc.val))]]
      [] sc.op = "status200" ->
            \* SAT.response undefined: the callback throws
            LET cb == IF rt.response = None THEN "throw"
                      ELSE IF rt.response[1].status = 200 THEN "true" ELSE "false"
                t == SAT_tester(rt, "ok", cb)
            IN [panic |-> FALSE, val |-> IF t.threw THEN JNull ELSE t.val, rt |-> t.rt]
      [] sc.op = "tester" ->
            LET t == SAT_tester(rt, sc.var, sc.val)
            IN [panic |-> FALSE, val |-> IF t.threw THEN JNull ELSE t.val, rt |-> t.rt]
      [] sc.op = "setNum" ->
            [panic |-> FALSE, val |-> JNum(1),
             rt |-> [rt EXCEPT !.globals[sc.var] = Some(JNum(1))]]
      [] sc.op = "setObj" ->
            [panic |-> FALSE, val |-> v8_value_to_serde_json(JObj(<<>>)),
             rt |-> [rt EXCEPT !.globals[sc.var] = Some(JObj(<<>>))]]
      [] sc.op = "toggle" ->
            LET nv == IF rt.globals[sc.var] = Some(JStr("x")) THEN "y" ELSE "x"
            IN [panic |-> FALSE, val |-> JStr(nv),
                rt |-> [rt EXCEPT !.globals[sc.var] = Some(JStr(nv))]]
      [] sc.op = "globalIs" ->
            [panic |-> FALSE, val |-> JBool(rt.globals[sc.var] = Some(JStr(sc.val))), rt |-> rt]
      [] OTHER -> [panic |-> FALSE, val |-> JNum(1), rt |-> rt]

\* The placeholder names of the modelled strings that do not make
\* SAT.globals.<name> a script that compiles.
NotAnExpression == {"a b"}

\* eval("SAT.globals.<name>"): compile(..).unwrap() panics when the text does
\* not compile; undefined (-> Null) when the global is unset.
EvalGlobal(rt, name) ==
    IF name \in NotAnExpression THEN [panic |-> TRUE, val |-> JNull]
    ELSE IF name \in Vars /\ rt.globals[name] # None
    THEN [panic |-> FALSE, val |-> v8_value_to_serde_json(rt.globals[name][1])]
    ELSE [panic |-> FALSE, val |-> JNull]

\* TestCtx::get_http_status: eval("SAT.response.status"), 0 unless it is a number.
get_http_status(rt) == IF rt.response = None THEN 0 ELSE rt.response[1].status

\* TestCtx::get_test_name: eval("SAT.testName"), "" unless it is a string.
get_test_name(rt) ==
    IF rt.testName # None /\ rt.testName[1].t = "str" THEN rt.testName[1].s ELSE ""

(***************************************************************************)
(* Cells (calamine::Data) and the row parser (ExcelRowParser).             *)
(***************************************************************************)
StrCell(v) == [ty |-> "str", v |-> v]
FloatCell(n) == [ty |-> "float", n |-> n]
EmptyCell == [ty |-> "empty"]

\* The i-th cell of a row, i counted from 0 as in the source.
Cell(row, i) == row[i + 1]

\* Data::get_string / Data::get_float
GetString(cell) == IF cell.ty = "str" THEN Some(cell.v) ELSE None
GetFloat(cell) == IF cell.ty = "float" THEN Some(cell.n) ELSE None

\* Fault variant of substitute_keywords: every piece of text that starts with
\* a $ is taken for a keyword.
RECURSIVE substitute_keywords_AnyDollar(_)
substitute_keywords_AnyDollar(s) ==
    IF s = <<>> THEN <<>>
    ELSE <<IF Head(s).k = "kw" \/ Head(s) = Lit("$5") THEN Lit("generated") ELSE Head(s)>>
         \o substitute_keywords_AnyDollar(Tail(s))

\* substitute_keywords: every $Keyword segment becomes generated text.
RECURSIVE substitute_keywords(_)
substitute_keywords(s) ==
    IF s = <<>> THEN <<>>
    ELSE <<IF Head(s).k = "kw" THEN Lit("generated") ELSE Head(s)>>
         \o substitute_keywords(Tail(s))

ParseError(field, message) == [field |-> field, message |-> message]

DefaultRepeatCount == 1
DefaultDelay == 0

\* TestCaseConfig::default
TestCaseConfig_default ==
    [repeat_count |-> DefaultRepeatCount, auth_type |-> "none", delay |-> DefaultDelay]

parse_id(cell) ==
    IF GetFloat(cell) # None THEN [val |-> GetFloat(cell)[1], errs |-> <<>>]
    ELSE [val |-> 0, errs |-> <<ParseError("id", "ID is not a number.")>>]

\* parse_name, parse_given, parse_when, parse_then
parse_text(cell, field) ==
    IF GetString(cell) # None
    THEN [val |-> substitute_keywords(GetString(cell)[1]), errs |-> <<>>]
    ELSE [val |-> <<>>, errs |-> <<ParseError(field, "Invalid field")>>]

\* A url string is [abs, segs, wellformed]: abs when it starts with http(s)://,
\* wellformed when Url::parse accepts it once it has a scheme.
parse_url(cell, config) ==
    IF GetString(cell) = None
    THEN [val |-> <<>>, errs |-> <<ParseError("url", "No data for 'url' field.")>>]
    ELSE LET s == GetString(cell)[1]
             hasScheme == s.abs \/ config.base_url # None
             full == IF s.abs THEN substitute_keywords(s.segs)
                     ELSE (IF config.base_url = None THEN <<>> ELSE config.base_url[1])
                          \o substitute_keywords(s.segs)
         IN IF hasScheme /\ s.wellformed THEN [val |-> full, errs |-> <<>>]
            ELSE [val |-> <<>>, errs |-> <<ParseError("url", "Invalid URL format.")>>]

\* A method string is [name, valid]: valid when it parses as reqwest::Method.
parse_method(cell) ==
    IF GetString(cell) = None
    THEN [val |-> "GET", errs |-> <<ParseError("method", "No data for 'method' field.")>>]
    ELSE IF GetString(cell)[1].valid THEN [val |-> GetString(cell)[1].name, errs |-> <<>>]
    ELSE [val |-> "GET", errs |-> <<ParseError("method", "Invalid HTTP method.")>>]

\* parse_headers: a header string is the list of its comma-separated items
\* [k, v, parts]; an item that does not split into 2 parts at ':' is dropped.
parse_headers(cell) ==
    IF GetString(cell) = None THEN <<>>
    ELSE LET kept == SelectSeq(GetString(cell)[1], LAMBDA h : h.parts = 2)
         IN [i \in 1..Len(kept) |-> <<kept[i].k, kept[i].v>>]

\* A payload string is [segs, json]: json when serde_json parses it.
parse_payload(cell) ==
    IF GetString(cell) = None THEN [val |-> <<>>, errs |-> <<>>]
    ELSE LET s == GetString(cell)[1]
             sub == substitute_keywords(s.segs)
         IN IF sub = <<>> \/ s.json THEN [val |-> sub, errs |-> <<>>]
            ELSE [val |-> <<>>, errs |-> <<ParseError("payload", "Invalid JSON payload.")>>]

\* A config string is [ok, cfg]: ok when it deserializes into TestCaseConfig.
parse_config(cell) ==
    IF GetString(cell) # None /\ GetString(cell)[1].ok THEN GetString(cell)[1].cfg
    ELSE TestCaseConfig_default

\* parse_pre_test_script / parse_post_test_script
parse_script(cell) == GetString(cell)

\* ExcelRowParser::parse_test_case_data: Ok(data) or Err(errors).
parse_test_case_data(row, config) ==
    LET pre == parse_script(Cell(row, 10))
        id == parse_id(Cell(row, 0))
        name == parse_text(Cell(row, 1), "name")
        given == parse_text(Cell(row, 2), "given")
        when == parse_text(Cell(row, 3), "when")
        then == parse_text(Cell(row, 4), "then")
        url == parse_url(Cell(row, 5), config)
        method == parse_method(Cell(row, 6))
        headers == parse_headers(Cell(row, 7))
        payload == parse_payload(Cell(row, 8))
        test_config == parse_config(Cell(row, 9))
        post == parse_script(Cell(row, 11))
        errors == id.errs \o name.errs \o given.errs \o when.errs \o then.errs
                  \o url.errs \o method.errs \o payload.errs
    IN [ok |-> errors = <<>>,
        errors |-> errors,
        data |-> [id |-> id.val, name |-> name.val, given |-> given.val,
                  when |-> when.val, then |-> then.val, url |-> url.val,
                  method |-> method.val, headers |-> headers, payload |-> payload.val,
                  config |-> test_config,
                  scripts |-> [pre_test |-> pre, post_test |-> post]]]

\* ExecutionState::new
ExecutionState_new ==
    [effective_name |-> <<>>, effective_url |-> <<>>, effective_payload |-> <<>>,
     result |-> "NotYetTested"]

\* The record TestCase::new builds when the parser returns Err.
EmptyCaseData ==
    [id |-> 0, name |-> <<>>, given |-> <<>>, when |-> <<>>, then |-> <<>>,
     url |-> <<>>, method |-> "GET", headers |-> <<>>, payload |-> <<>>,
     config |-> TestCaseConfig_default,
     scripts |-> [pre_test |-> None, post_test |-> None]]

\* parse_test_case_data reads row[0] to row[11]: an index outside the row
\* panics.
IndexPanics(row) == Len(row) < 12

\* TestCase::new
TestCase_new(row, config) ==
    LET p == parse_test_case_data(row, config)
    IN IF p.ok
       THEN [data |-> p.data, execution_state |-> ExecutionState_new, errors |-> <<>>]
       ELSE [data |-> EmptyCaseData, execution_state |-> ExecutionState_new,
             errors |-> p.errors]

(***************************************************************************)
(* TestCtx: the per-group context.                                         *)
(***************************************************************************)
\* Fault variant of TestCtx::new: a context that starts out holding a token.
TestCtx_new_Stale ==
    [jwt_token |-> Some("T1"), runtime |-> JsEngine_new, exec_duration |-> 0]

\* TestCtx::new
TestCtx_new == [jwt_token |-> None, runtime |-> JsEngine_new, exec_duration |-> 0]

\* Fault variant of update_token: a token already stored is not overwritten.
update_token_KeepFirst(ctx, token) ==
    IF ctx.jwt_token = None THEN [ctx EXCEPT !.jwt_token = token] ELSE ctx

\* TestCtx::update_token
update_token(ctx, token) == [ctx EXCEPT !.jwt_token = token]

\* The walk of extract_token over the keys of token_key.
RECURSIVE WalkKeys(_, _)
WalkKeys(current, keys) ==
    IF keys = <<>> THEN current
    ELSE IF current = None THEN None
    ELSE WalkKeys(JsonGet(current[1], Head(keys)), Tail(keys))

\* extract_token: a body is [isJson, val]; token_key is the Option of its
\* '.'-separated keys, and an unset token_key splits into the one key "".
extract_token(body, config) ==
    IF ~body.isJson THEN None
    ELSE LET keys == IF config.token_key = None THEN <<"">> ELSE config.token_key[1]
             found == WalkKeys(Some(body.val), keys)
         IN IF found = None THEN None ELSE AsStr(found[1])

\* Fault variant of TestCtx::exec: a transport failure leaves SAT.response as it was.
TestCtx_exec_KeepResponse(ctx, resp, is_authorizer, config) ==
    LET timed == [ctx EXCEPT !.exec_duration = resp.duration]
    IN IF resp.ok
       THEN LET tok == IF resp.body.isJson /\ is_authorizer
                       THEN extract_token(resp.body, config) ELSE None
                withTok == IF tok # None THEN update_token(timed, tok) ELSE timed
            IN [withTok EXCEPT !.runtime.response =
                    Some([status |-> resp.status, json |-> resp.body.isJson])]
       ELSE timed

\* Fault variant of TestCtx::exec: the token of every JSON response is stored,
\* whatever the auth_type of the case.
TestCtx_exec_AnyCase(ctx, resp, is_authorizer, config) ==
    LET timed == [ctx EXCEPT !.exec_duration = resp.duration]
    IN IF resp.ok
       THEN LET tok == IF resp.body.isJson
                       THEN extract_token(resp.body, config) ELSE None
                withTok == IF tok # None THEN update_token(timed, tok) ELSE timed
            IN [withTok EXCEPT !.runtime.response =
                    Some([status |-> resp.status, json |-> resp.body.isJson])]
       ELSE [timed EXCEPT !.runtime.response = Some([status |-> 0, json |-> FALSE])]

\* Fault variant of TestCtx::exec: the token is overwritten with whatever
\* extract_token returned, None included.
TestCtx_exec_AlwaysUpdate(ctx, resp, is_authorizer, config) ==
    LET timed == [ctx EXCEPT !.exec_duration = resp.duration]
    IN IF resp.ok
       THEN LET tok == IF resp.body.isJson /\ is_authorizer
                       THEN extract_token(resp.body, config) ELSE None
                withTok == IF is_authorizer THEN update_token(timed, tok) ELSE timed
            IN [withTok EXCEPT !.runtime.response =
                    Some([status |-> resp.status, json |-> resp.body.isJson])]
       ELSE [(IF is_authorizer THEN update_token(timed, None) ELSE timed)
                EXCEPT !.runtime.response = Some([status |-> 0, json |-> FALSE])]

\* TestCtx::exec: the outcome of request.send() is resp = [ok, status, body,
\* duration]; ok = FALSE is a transport failure.  SAT.response is kept as its
\* status and whether its json member is a parsed body (the scripts modelled
\* read nothing else of it).
TestCtx_exec(ctx, resp, is_authorizer, config) ==
    LET timed == [ctx EXCEPT !.exec_duration = resp.duration]
    IN IF resp.ok
       THEN LET tok == IF resp.body.isJson /\ is_authorizer
                       THEN extract_token(resp.body, config) ELSE None
                withTok == IF tok # None THEN update_token(timed, tok) ELSE timed
            IN [withTok EXCEPT !.runtime.response =
                    Some([status |-> resp.status, json |-> resp.body.isJson])]
       ELSE [timed EXCEPT !.runtime.response = Some([status |-> 0, json |-> FALSE])]

\* TestCtx::verify_result: [panic, val, ctx]
verify_result(ctx, script) ==
    IF script = None THEN [panic |-> FALSE, val |-> FALSE, ctx |-> ctx]
    ELSE LET r == JsEval(ctx.runtime, script[1])
         IN [panic |-> r.panic,
             val |-> AsBool(r.val) = Some(TRUE),
             ctx |-> [ctx EXCEPT !.runtime = r.rt]]

(***************************************************************************)
(* PlaceholderResolver and the request of one iteration.                   *)
(***************************************************************************)
\* The process environment read by {{env:X}}.
EnvVar(name) == IF name = "TIER" THEN Some("prod") ELSE None

\* The replacement of one placeholder match (the closure of replace_all).
ResolveSegment(seg, ctx) ==
    CASE seg.k = "env" ->
            IF EnvVar(seg.s) # None THEN Lit(EnvVar(seg.s)[1]) ELSE seg
      [] seg.k = "js" ->
            LET value == EvalGlobal(ctx.runtime, seg.s).val
            IN IF AsStr(value) # None THEN Lit(AsStr(value)[1]) ELSE seg
      [] OTHER -> seg

\* PlaceholderResolver::substitute_placeholders
substitute_placeholders(original, ctx) ==
    LET keyword_substituted == substitute_keywords(original)
    IN [i \in 1..Len(keyword_substituted) |->
            ResolveSegment(keyword_substituted[i], ctx)]

\* Does substitute_placeholders panic?  It does when the eval of one of its
\* {{var}} matches panics.
ResolvePanics(original, ctx) ==
    LET keyword_substituted == substitute_keywords(original)
    IN \E i \in 1..Len(keyword_substituted) :
          /\ keyword_substituted[i].k = "js"
          /\ EvalGlobal(ctx.runtime, keyword_substituted[i].s).panic

\* str::to_lowercase on the header names of the modelled rows.
ToLowercase(k) ==
    CASE k = "Content-Type" -> "content-type"
      [] k = "Authorization" -> "authorization"
      [] OTHER -> k

\* Fault variant of step 2: the header is pushed without testing for a token.
AttachAuth_Always(headers, config, jwt_token) ==
    IF config.auth_type = "authorized"
    THEN Append(headers, <<"Authorization",
                           <<"Bearer", IF jwt_token = None THEN "" ELSE jwt_token[1]>> >>)
    ELSE headers

\* Step 2 of prepare_request: the per-request header list.  A header is
\* <<name, value>>, its value a sequence of words.
AttachAuth(headers, config, jwt_token) ==
    IF config.auth_type = "authorized" /\ jwt_token # None
    THEN Append(headers, <<"Authorization", <<"Bearer", jwt_token[1]>> >>)
    ELSE headers

\* Fault variant of prepare_request: the Authorization header is pushed onto
\* the header list of the case record.
prepare_request_PushOnRecord(tc, ctx) ==
    LET es == [tc.execution_state EXCEPT
                  !.effective_name = substitute_placeholders(tc.data.name, ctx),
                  !.effective_url = substitute_placeholders(tc.data.url, ctx),
                  !.effective_payload = substitute_placeholders(tc.data.payload, ctx)]
        headers == AttachAuth(tc.data.headers, tc.data.config, ctx.jwt_token)
    IN [panic |-> \/ ResolvePanics(tc.data.name, ctx)
                  \/ ResolvePanics(tc.data.url, ctx)
                  \/ ResolvePanics(tc.data.payload, ctx),
        tc |-> [tc EXCEPT !.execution_state = es, !.data.headers = headers],
        req |-> [method |-> tc.data.method, url |-> es.effective_url,
                 headers |-> SelectSeq(headers, LAMBDA h : ToLowercase(h[1]) # "content-type"),
                 payload |-> es.effective_payload]]

\* TestCase::prepare_request: [panic, tc, req]
prepare_request(tc, ctx) ==
    LET es == [tc.execution_state EXCEPT
                  !.effective_name = substitute_placeholders(tc.data.name, ctx),
                  !.effective_url = substitute_placeholders(tc.data.url, ctx),
                  !.effective_payload = substitute_placeholders(tc.data.payload, ctx)]
        headers == AttachAuth(tc.data.headers, tc.data.config, ctx.jwt_token)
    IN [panic |-> \/ ResolvePanics(tc.data.name, ctx)
                  \/ ResolvePanics(tc.data.url, ctx)
                  \/ ResolvePanics(tc.data.payload, ctx),
        tc |-> [tc EXCEPT !.execution_state = es],
        req |-> [method |-> tc.data.method, url |-> es.effective_url,
                 headers |-> SelectSeq(headers, LAMBDA h : ToLowercase(h[1]) # "content-type"),
                 payload |-> es.effective_payload]]

\* Fault variant of pre_run_ops: the request is prepared before the pre-script
\* is evaluated.
pre_run_ops_ResolveFirst(tc, ctx) ==
    LET pre == tc.data.scripts.pre_test
        p == prepare_request(tc, ctx)
        r == IF pre = None THEN [panic |-> FALSE, val |-> JNull, rt |-> ctx.runtime]
             ELSE JsEval(ctx.runtime, pre[1])
        ctx1 == [ctx EXCEPT !.runtime = r.rt]
    IN [panic |-> r.panic \/ p.panic, tc |-> p.tc, ctx |-> ctx1, req |-> p.req,
        pre_evals |-> IF pre = None THEN 0 ELSE 1,
        sleeps |-> IF tc.data.config.delay > 0 THEN 1 ELSE 0]

\* TestCase::pre_run_ops: [panic, tc, ctx, req, pre_evals, sleeps]; sleeps
\* counts the calls of thread::sleep.
pre_run_ops(tc, ctx) ==
    LET pre == tc.data.scripts.pre_test
        r == IF pre = None THEN [panic |-> FALSE, val |-> JNull, rt |-> ctx.runtime]
             ELSE JsEval(ctx.runtime, pre[1])
        ctx1 == [ctx EXCEPT !.runtime = r.rt]
        p == prepare_request(tc, ctx1)
    IN [panic |-> r.panic \/ p.panic, tc |-> p.tc, ctx |-> ctx1, req |-> p.req,
        pre_evals |-> IF pre = None THEN 0 ELSE 1,
        sleeps |-> IF tc.data.config.delay > 0 THEN 1 ELSE 0]

\* TestCase::post_run_ops: print_result, then the delay.
post_run_ops(tc) == [sleeps |-> IF tc.data.config.delay > 0 THEN 1 ELSE 0]

(***************************************************************************)
(* The run: configuration, workbook rows and responses are inputs.         *)
(***************************************************************************)
VARIABLES
    config,          \* Config, frozen per run
    columns,         \* width of the cell range of the workbook's sheets
    unit,            \* a runtime, a resolver or a parser called on its own
    pc,              \* "start", "suite", "rows", "iter", "done", "failed", "panicked"
    pending,         \* sheets TSat::exec has still to hand to TestSuite::exec
    sheet,           \* worksheet_name of the running TestSuite::exec
    rowIdx,          \* index i of the next row of the sheet
    rowsRead,        \* rows read past the start_row check, over the whole run
    suite,           \* TestSuite: counters and test_groups
    current_group,   \* Option<TestGroup> of TestSuite::exec
    tc,              \* Option<TestCase>: the case whose repeat loop is running
    iter,            \* iterations of the repeat loop completed
    events,          \* everything sent on the channel, in order
    receiver,        \* the Receiver TSat::new returned: "held" or "dropped"
    run,             \* history of the latest TestCase::run
    hist             \* history of the current group

vars == <<config, columns, unit, pc, pending, sheet, rowIdx, rowsRead, suite, current_group,
          tc, iter, events, receiver, run, hist>>

\* The sheets of the workbook, in sheet_names() order.
SheetNames == <<"S1", "S2">>
GroupNames == {"alpha", "beta"}
BaseUrl == <<Lit("http://svc.test")>>

DefaultStartRow == 1

TokenKey == <<"data", "access_token">>

\* The configurations of the modelled runs: every sheet with a token_key; a
\* worksheet the workbook does not have; one worksheet with a group selector,
\* the row range [1, 1] and neither base_url nor token_key; every sheet with start_row
\* 0, an end_row and selectors that allow one group of the first sheet only.
Configs ==
    { [worksheet |-> None, start_row |-> None, end_row |-> None,
       base_url |-> Some(BaseUrl), verbose |-> FALSE, token_key |-> Some(TokenKey),
       groups |-> None],
      [worksheet |-> Some("S9"), start_row |-> Some(0), end_row |-> None,
       base_url |-> None, verbose |-> FALSE, token_key |-> None, groups |-> None],
      [worksheet |-> Some("S2"), start_row |-> Some(1), end_row |-> Some(1),
       base_url |-> None, verbose |-> FALSE, token_key |-> None,
       groups |-> Some(<<<<Some("S2"), "alpha">>>>)],
      [worksheet |-> None, start_row |-> Some(0), end_row |-> Some(1),
       base_url |-> None, verbose |-> FALSE, token_key |-> None,
       groups |-> Some(<<<<Some("S1"), "alpha">>>>)] }

\* The widths of the ranges worksheet_range returns in the modelled workbooks:
\* the used columns of a sheet end at J or at L.  Every row of a range has the
\* width of the range.
Widths == {10, 12}

\* The cells of a sheet row that lie inside a range of the given width.
Clip(row, width) == SubSeq(row, 1, width)

\* Rows.  The first cell of a string row is [prefix, rest]: prefix is "Group:"
\* when the string starts with it, rest is what follows, trimmed.
HeaderRow(name) ==
    <<StrCell([prefix |-> "Group:", rest |-> name])>> \o [i \in 1..11 |-> EmptyCell]

CaseRow(idCell, nameCell, urlCell, methodCell, headersCell, payloadCell, cfgCell, pre, post) ==
    <<idCell, nameCell, StrCell(<<Lit("given")>>), StrCell(<<Lit("when")>>),
      StrCell(<<Lit("then")>>), urlCell, methodCell, headersCell, payloadCell, cfgCell,
      IF pre = None THEN EmptyCell ELSE StrCell(pre[1]),
      IF post = None THEN EmptyCell ELSE StrCell(post[1])>>

NameCell == StrCell(<<Lit("case "), PhJs("v")>>)
RelUrlCell == StrCell([abs |-> FALSE, segs |-> <<Lit("/health")>>, wellformed |-> TRUE])
AbsUrlCell == StrCell([abs |-> TRUE, segs |-> <<Lit("http://h/"), PhJs("v")>>, wellformed |-> TRUE])
BadUrlCell == StrCell([abs |-> TRUE, segs |-> <<Lit("http://")>>, wellformed |-> FALSE])
GetCell == StrCell([name |-> "GET", valid |-> TRUE])
BadMethodCell == StrCell([name |-> "GE T", valid |-> FALSE])
HeadersCell ==
    StrCell(<<[k |-> "Content-Type", v |-> <<"application/json">>, parts |-> 2],
              [k |-> "broken", v |-> <<>>, parts |-> 1]>>)
BadPayloadCell == StrCell([segs |-> <<Lit("{not json")>>, json |-> FALSE])
VarPayloadCell == StrCell([segs |-> <<Lit("{\"k\":\""), PhJs("v"), Lit("\"}")>>, json |-> TRUE])
CfgCell(r, a, d) ==
    StrCell([ok |-> TRUE, cfg |-> [repeat_count |-> r, auth_type |-> a, delay |-> d]])

AuthTypes == {"none", "authorizer", "authorized"}

GoodRow(id, urlCell, headersCell, cfgCell, pre, post) ==
    CaseRow(FloatCell(id), NameCell, urlCell, GetCell, headersCell, EmptyCell, cfgCell, pre, post)

\* Well-formed case rows: repeatCount MaxRepeat with every authType (with a
\* delay of 5 ms for authType none), an
\* authorizer with repeatCount 1, and repeatCount 0; pre- and
\* post-scripts that write and read SAT.globals.v; scripts that throw, do not
\* compile or do not return a boolean, in rows without a config cell.
GoodRows ==
    { GoodRow(1, RelUrlCell, EmptyCell, CfgCell(MaxRepeat, a, IF a = "none" THEN 5 ELSE 0),
              None, Some(ScStatusIs)) :
        a \in AuthTypes }
    \cup
    { GoodRow(1, RelUrlCell, EmptyCell, CfgCell(1, "authorizer", 0), None, Some(ScStatusIs)) }
    \cup
    { GoodRow(1, RelUrlCell, EmptyCell, CfgCell(0, "none", 0), None, Some(ScStatusIs)) }
    \cup
    { GoodRow(1, RelUrlCell, EmptyCell, CfgCell(1, "none", 0), pre, Some(ScGlobalIs("v", "x"))) :
        pre \in {None, Some(ScSet("v", "x"))} }
    \cup
    { GoodRow(2, AbsUrlCell, HeadersCell, EmptyCell, sc[1], sc[2]) :
        sc \in { <<Some(ScThrow), None>>, <<Some(ScSyntax), Some(ScNumber)>>,
                 <<None, Some(ScThrow)>>, <<None, Some(ScSyntax)>> } }

BadIdCell == StrCell([prefix |-> "", rest |-> "abc"])

BadRow(idc, nc, uc, mc, pc_, a) ==
    CaseRow(idc, nc, uc, mc, EmptyCell, pc_, CfgCell(MaxRepeat, a, 0),
            Some(ScSet("v", "x")), Some(ScStatusIs))

\* Rows with a parse error in one field (or in two), each with a pre-script,
\* a post-script and a config cell that asks for repeats and authorization.
BadRows ==
    { BadRow(BadIdCell, NameCell, RelUrlCell, GetCell, EmptyCell, "authorizer"),
      BadRow(FloatCell(1), EmptyCell, RelUrlCell, GetCell, EmptyCell, "authorized"),
      BadRow(FloatCell(1), NameCell, BadUrlCell, GetCell, EmptyCell, "authorizer"),
      BadRow(FloatCell(1), NameCell, EmptyCell, GetCell, EmptyCell, "authorized"),
      BadRow(FloatCell(1), NameCell, RelUrlCell, BadMethodCell, EmptyCell, "authorizer"),
      BadRow(FloatCell(1), NameCell, RelUrlCell, EmptyCell, EmptyCell, "authorized"),
      BadRow(FloatCell(1), NameCell, RelUrlCell, GetCell, BadPayloadCell, "authorizer"),
      BadRow(BadIdCell, NameCell, RelUrlCell, BadMethodCell, BadPayloadCell, "authorized") }

CaseRows == GoodRows \cup BadRows

HeaderRows == { HeaderRow(name) : name \in GroupNames }

\* The rows a sheet can hold.
Rows == HeaderRows \cup CaseRows

\* row[0].get_string().unwrap_or("")
FirstCell(row) ==
    IF GetString(Cell(row, 0)) = None THEN [prefix |-> "", rest |-> ""]
    ELSE GetString(Cell(row, 0))[1]

\* first_cell.starts_with("Group:")
StartsWithGroup(first_cell) == first_cell.prefix = "Group:"

\* first_cell.trim_start_matches("Group:").trim()
GroupNameOf(first_cell) == first_cell.rest

\* Outcomes of request.send().
JsonBody(val) == [isJson |-> TRUE, val |-> val]
TextBody == [isJson |-> FALSE, val |-> JNull]
TokenBody(v) == JsonBody(JObj("data" :> JObj("access_token" :> v)))
Responses ==
    { [ok |-> FALSE, status |-> 0, body |-> TextBody, duration |-> 1],
      [ok |-> TRUE, status |-> 500, body |-> TextBody, duration |-> 1],
      [ok |-> TRUE, status |-> 200, body |-> TokenBody(JStr("T1")), duration |-> 1],
      [ok |-> TRUE, status |-> 200, body |-> TokenBody(JStr("T2")), duration |-> 1],
      [ok |-> TRUE, status |-> 200, body |-> TokenBody(JNum(7)), duration |-> 1] }

(***************************************************************************)
(* Events, groups and the suite.                                           *)
(***************************************************************************)
Ev(type, id, name) == [type |-> type, id |-> id, name |-> name]

\* TestSuite::get_start_evt_data / get_end_evt_data
SuiteName == "TestSuite"

\* TestSuite::new
TestSuite_new ==
    [test_groups |-> <<>>, total |-> 0, passed |-> 0, failed |-> 0, skipped |-> 0,
     exec_duration |-> 0]

\* TestGroup::new (its fire_start_evt is part of the header action)
TestGroup_new(group_name) ==
    [name |-> group_name, test_cases |-> 0, group_ctx |-> TestCtx_new,
     total |-> 0, passed |-> 0, failed |-> 0, skipped |-> 0, exec_duration |-> 0]

\* parse_config_groups: worksheet -> set of group names (the map's pairs).
parse_config_groups(cfg, default_worksheet) ==
    IF cfg.groups = None THEN {}
    ELSE { <<(IF g[1] # None THEN g[1][1] ELSE default_worksheet), g[2]>> :
             g \in { cfg.groups[1][i] : i \in 1..Len(cfg.groups[1]) } }

\* Fault variant of the selector test: every group is started.
GroupAllowed_Every(config_groups, worksheet_name, group_name) == TRUE

\* Fault variant of the selector test: the worksheet of a selector is not looked at.
GroupAllowed_AnySheet(config_groups, worksheet_name, group_name) ==
    config_groups = {} \/ \E sel \in config_groups : sel[2] = group_name

\* The selector test of TestSuite::exec.
GroupAllowed(config_groups, worksheet_name, group_name) ==
    config_groups = {} \/ <<worksheet_name, group_name>> \in config_groups

\* Fault variant of update_stats: the skipped counter is not added.
update_stats_NoSkipped(ts, group) ==
    [ts EXCEPT !.total = @ + group.total, !.passed = @ + group.passed,
               !.failed = @ + group.failed,
               !.exec_duration = @ + group.exec_duration]

\* TestSuite::update_stats
update_stats(ts, group) ==
    [ts EXCEPT !.total = @ + group.total, !.passed = @ + group.passed,
               !.failed = @ + group.failed, !.skipped = @ + group.skipped,
               !.exec_duration = @ + group.exec_duration]

\* TestSuite::finalize_group: [suite, events].  test_groups keeps the groups
\* pushed (each with its context), listed here by name.
finalize_group(ts, group) ==
    IF group = None THEN [suite |-> ts, events |-> <<>>]
    ELSE [suite |-> [update_stats(ts, group[1]) EXCEPT
                        !.test_groups = Append(@, group[1].name)],
          events |-> <<Ev("TestGroupEnd", 0, group[1].name)>>]

\* Fault variant of the counter update: a skipped row is left out of total.
CountResult_SkippedNotInTotal(group, t_result) ==
    [group EXCEPT
        !.test_cases = @ + 1,
        !.total = IF t_result = "Skipped" THEN @ ELSE @ + 1,
        !.passed = IF t_result = "Passed" THEN @ + 1 ELSE @,
        !.failed = IF t_result = "Failed" THEN @ + 1 ELSE @,
        !.skipped = IF t_result = "Skipped" THEN @ + 1 ELSE @,
        !.exec_duration = @ + group.group_ctx.exec_duration]

\* Fault variant of the counter update: no arm for Skipped.
CountResult_NoSkipped(group, t_result) ==
    [group EXCEPT
        !.test_cases = @ + 1,
        !.total = @ + 1,
        !.passed = IF t_result = "Passed" THEN @ + 1 ELSE @,
        !.failed = IF t_result = "Failed" THEN @ + 1 ELSE @,
        !.exec_duration = @ + group.group_ctx.exec_duration]

\* The counter update of TestGroup::exec for the result run returned.
CountResult(group, t_result) ==
    [group EXCEPT
        !.test_cases = @ + 1,
        !.total = @ + 1,
        !.passed = IF t_result = "Passed" THEN @ + 1 ELSE @,
        !.failed = IF t_result = "Failed" THEN @ + 1 ELSE @,
        !.skipped = IF t_result = "Skipped" THEN @ + 1 ELSE @,
        !.exec_duration = @ + group.group_ctx.exec_duration]

\* Fault variant: run works on a copy of the context, its changes are lost.
StoreCtx_Copy(group, ctx) == group

\* tc.run(&mut self.group_ctx, ..): what run does to the context stays in the group.
StoreCtx(group, ctx) == [group EXCEPT !.group_ctx = ctx]

\* The result of one iteration (execute_request) from verify_result's value.
IterationResult(verdict) == IF verdict THEN "Passed" ELSE "Failed"

\* Fault variant of the loop control: no break on Failed.
LoopEnds_NoBreak(result, done, repeat_count) == done >= repeat_count

\* The loop control of TestCase::run after an iteration: does the loop end?
LoopEnds(result, done, repeat_count) == result = "Failed" \/ done >= repeat_count

\* Fault variant: overall_result is never set to Failed.
OverallResult_AlwaysPassed(result) == "Passed"

\* overall_result of TestCase::run once the loop has ended on `result`.
OverallResult(result) == IF result = "Failed" THEN "Failed" ELSE "Passed"

(***************************************************************************)
(* History variables: what the claims speak about.                         *)
(***************************************************************************)
NoRun ==
    [row |-> 0, evAt |-> 0, hadErrors |-> FALSE, repeat |-> 0, auth |-> "none",
     verdicts |-> <<>>, req |-> None, sends |-> 0, pres |-> 0, resolves |-> 0, posts |-> 0,
     returned |-> None, result |-> "NotYetTested", rowHeaders |-> <<>>,
     delay |-> 0, preSleeps |-> 0, postSleeps |-> 0, sendTime |-> 0]

NoHist ==
    [toks |-> <<>>, globals |-> [x \in Vars |-> None], dispatched |-> <<>>,
     prevDirty |-> FALSE, log |-> <<>>]

\* The record of tokens held by authorizer responses: the latest one last,
\* the one it replaced (if different) before it.
NoteToken(toks, held) ==
    IF held = None \/ (toks # <<>> /\ toks[Len(toks)] = held[1]) THEN toks
    ELSE (IF toks = <<>> THEN <<>> ELSE <<toks[Len(toks)]>>) \o <<held[1]>>

\* The token the latest authorizer response of the group held, if any.
ExpectedToken(h) == IF h.toks = <<>> THEN None ELSE Some(h.toks[Len(h.toks)])

\* Does a row have a parse error, by the validation rules of the row layout?
RowHasParseError(row, cfg) ==
    \/ Cell(row, 0).ty # "float"
    \/ \E i \in 1..4 : Cell(row, i).ty # "str"
    \/ Cell(row, 5).ty # "str"
    \/ ~Cell(row, 5).v.wellformed
    \/ (~Cell(row, 5).v.abs /\ cfg.base_url = None)
    \/ Cell(row, 6).ty # "str"
    \/ ~Cell(row, 6).v.valid
    \/ (Cell(row, 8).ty = "str" /\ Cell(row, 8).v.segs # <<>> /\ ~Cell(row, 8).v.json)

\* Has the context of a group been written to?
Dirty(group) == group # None /\ group[1].group_ctx # TestCtx_new

\* The history a new group (or a new sheet) starts from.
FreshHist(h, group) ==
    [NoHist EXCEPT !.prevDirty = h.prevDirty \/ Dirty(group), !.log = h.log]

\* What the sheet holds at a row: its index, whether column A starts with
\* Group:, and the group name if so.
RowEntry(idx, row) ==
    LET a == Cell(row, 0)
        header == a.ty = "str" /\ a.v.prefix = "Group:"
    IN [idx |-> idx, header |-> header, name |-> IF header THEN a.v.rest ELSE ""]

\* The string a response holds at token_key, if any (an unset token_key is
\* the empty key, as extract_token reads it).
RECURSIVE JsonAt(_, _)
JsonAt(val, keys) ==
    IF keys = <<>> THEN Some(val)
    ELSE IF val.t = "obj" /\ Head(keys) \in DOMAIN val.f
         THEN JsonAt(val.f[Head(keys)], Tail(keys))
         ELSE None

HeldToken(resp, cfg) ==
    IF resp.ok /\ resp.body.isJson
    THEN LET at == JsonAt(resp.body.val,
                          IF cfg.token_key = None THEN <<"">> ELSE cfg.token_key[1])
         IN IF at # None /\ at[1].t = "str" THEN Some(at[1].s) ELSE None
    ELSE None

\* The write a script makes to SAT.globals, if it runs to completion.
WriteOf(script, globals) ==
    IF script # None /\ script[1].op = "set"
    THEN [globals EXCEPT ![script[1].var] = Some(JStr(script[1].val))]
    ELSE IF script # None /\ script[1].op = "toggle"
    THEN [globals EXCEPT ![script[1].var] =
              IF @ = Some(JStr("x")) THEN Some(JStr("y")) ELSE Some(JStr("x"))]
    ELSE globals

(***************************************************************************)
(* Actions.                                                                *)
(***************************************************************************)
\* Nothing has been called on its own yet.
NoUnit ==
    [op |-> "none", panicked |-> FALSE, rt |-> JsEngine_new, script |-> None,
     value |-> None, original |-> <<>>, resolved |-> <<>>, row |-> None, case |-> None,
     before |-> None, after |-> None, resp |-> None, authorizer |-> FALSE,
     key |-> None, token |-> None, calls |-> 0]

Init ==
    /\ config \in Configs
    /\ columns \in Widths
    /\ unit = NoUnit
    /\ pc = "start"
    /\ pending = <<>>
    /\ sheet = ""
    /\ rowIdx = 0
    /\ rowsRead = 0
    /\ suite = TestSuite_new
    /\ current_group = None
    /\ tc = None
    /\ iter = 0
    /\ events = <<>>
    /\ receiver = "held"
    /\ run = NoRun
    /\ hist = NoHist

StartRow(cfg) == IF cfg.start_row = None THEN DefaultStartRow ELSE cfg.start_row[1]

\* TSat::exec: one TestSuite::exec for the configured worksheet, or one per sheet.
TSat_exec ==
    /\ pc = "start"
    /\ pending' = IF config.worksheet # None THEN <<config.worksheet[1]>> ELSE SheetNames
    /\ pc' = "suite"
    /\ UNCHANGED <<config, columns, unit, sheet, rowIdx, rowsRead, suite, current_group, tc, iter,
                   events, receiver, run, hist>>

\* Sender::send on the unbounded channel of TSat::new: the message is queued
\* whether or not anyone reads, and Err comes back once the Receiver is gone.
Send(rx, queue, msg) ==
    IF rx = "held" THEN [ok |-> TRUE, queue |-> Append(queue, msg)]
    ELSE [ok |-> FALSE, queue |-> queue]

\* The consumer drops the Receiver before exec is called (a consumer that
\* keeps it and never reads is the run in which this step is not taken).
DropReceiver ==
    /\ pc = "start"
    /\ receiver = "held"
    /\ receiver' = "dropped"
    /\ UNCHANGED <<config, columns, unit, pc, pending, sheet, rowIdx, rowsRead, suite, current_group,
                   tc, iter, events, run, hist>>

\* TestSuite::exec up to the row loop: fire_start_evt, then worksheet_range(..)?
SuiteBegin ==
    /\ pc = "suite"
    /\ pending # <<>>
    /\ LET sent == Send(receiver, events, Ev("TestSuiteBegin", 0, SuiteName))
       IN IF ~sent.ok
          THEN \* fire_start_evt: send(..).unwrap() panics
               /\ pc' = "panicked"
               /\ UNCHANGED <<sheet, rowIdx, current_group, events, hist>>
          ELSE /\ events' = sent.queue
               /\ IF \E i \in 1..Len(SheetNames) : SheetNames[i] = Head(pending)
                  THEN /\ pc' = "rows"
                       /\ sheet' = Head(pending)
                       /\ rowIdx' = 0
                       /\ current_group' = None
                  ELSE /\ pc' = "failed"
                       /\ UNCHANGED <<sheet, rowIdx, current_group>>
               /\ hist' = [hist EXCEPT !.log = <<>>]
    /\ UNCHANGED <<config, columns, unit, pending, rowsRead, suite, tc, iter, receiver, run>>

\* A row below start_row: continue.
SkipRow ==
    /\ pc = "rows"
    /\ rowIdx < StartRow(config)
    /\ rowIdx' = rowIdx + 1
    /\ UNCHANGED <<config, columns, unit, pc, pending, sheet, rowsRead, suite, current_group, tc,
                   iter, events, receiver, run, hist>>

\* The workbook under test names the groups of a sheet in turn: the headers
\* of a sheet read alpha, beta, alpha, ...
HeadersRead(log) == Cardinality({ i \in 1..Len(log) : log[i].header })

NextHeaderName(log) == IF HeadersRead(log) % 2 = 0 THEN "alpha" ELSE "beta"

\* A row whose first cell starts with "Group:".
GroupHeader(row) ==
    /\ pc = "rows"
    /\ rowIdx >= StartRow(config)
    /\ rowsRead < MaxRows
    /\ StartsWithGroup(FirstCell(row))
    /\ GroupNameOf(FirstCell(row)) = NextHeaderName(hist.log)
    /\ LET fin == finalize_group(suite, current_group)
           name == GroupNameOf(FirstCell(row))
           allowed == GroupAllowed(parse_config_groups(config, sheet), sheet, name)
       IN /\ suite' = fin.suite
          /\ current_group' = IF allowed THEN Some(TestGroup_new(name)) ELSE None
          /\ events' = events \o fin.events
                       \o (IF allowed THEN <<Ev("TestGroupBegin", 0, name)>> ELSE <<>>)
    /\ hist' = [FreshHist(hist, current_group) EXCEPT
                    !.log = Append(@, RowEntry(rowIdx, row))]
    /\ run' = NoRun
    /\ rowIdx' = rowIdx + 1
    /\ rowsRead' = rowsRead + 1
    /\ UNCHANGED <<config, columns, unit, pc, pending, sheet, tc, iter, receiver>>

\* A case row while no group is active: ignored.
IgnoreRow(row) ==
    /\ pc = "rows"
    /\ rowIdx >= StartRow(config)
    /\ rowsRead < MaxRows
    /\ ~StartsWithGroup(FirstCell(row))
    /\ current_group = None
    /\ rowIdx' = rowIdx + 1
    /\ rowsRead' = rowsRead + 1
    /\ hist' = [hist EXCEPT !.log = Append(@, RowEntry(rowIdx, row))]
    /\ UNCHANGED <<config, columns, unit, pc, pending, sheet, suite, current_group, tc, iter,
                   events, receiver, run>>

\* Fault variant of the start of run: no test of self.errors.
RunStart_NoErrorCheck(t) ==
    IF t.data.config.repeat_count = 0 THEN Some("Passed") ELSE None

\* What TestCase::run returns before its repeat loop runs an iteration:
\* Skipped on parse errors, Passed when the loop has nothing to do.
RunStart(t) ==
    IF t.errors # <<>> THEN Some("Skipped")
    ELSE IF t.data.config.repeat_count = 0 THEN Some("Passed")
    ELSE None

\* TestGroup::exec on a case row: TestCase::new, then run up to the loop.  In
\* a range too narrow for the row layout TestCase::new panics, before any
\* event of the case.
DispatchRow(row) ==
    /\ pc = "rows"
    /\ rowIdx >= StartRow(config)
    /\ rowsRead < MaxRows
    /\ ~StartsWithGroup(FirstCell(row))
    /\ current_group # None
    /\ IF IndexPanics(Clip(row, columns))
       THEN /\ pc' = "panicked"
            /\ run' = [NoRun EXCEPT !.row = rowIdx]
            /\ hist' = [hist EXCEPT !.dispatched = Append(@, rowIdx)]
            /\ UNCHANGED <<events, current_group, rowIdx, tc>>
       ELSE /\ LET t == TestCase_new(Clip(row, columns), config)
                   early == RunStart(t)
               IN /\ events' = Append(events, Ev("TestCaseBegin", t.data.id, ""))
                  /\ run' = [NoRun EXCEPT !.row = rowIdx, !.evAt = Len(events),
                                          !.hadErrors = RowHasParseError(row, config),
                                          !.repeat = t.data.config.repeat_count,
                                          !.auth = t.data.config.auth_type,
                                          !.delay = t.data.config.delay,
                                          !.returned = early,
                                          !.rowHeaders =
                                              parse_headers(Cell(Clip(row, columns), 7)),
                                          !.result = t.execution_state.result]
                  /\ IF early # None
                     THEN /\ current_group' = Some(CountResult(current_group[1], early[1]))
                          /\ rowIdx' = rowIdx + 1
                          /\ UNCHANGED <<pc, tc>>
                     ELSE /\ pc' = "iter"
                          /\ tc' = Some(t)
                          /\ UNCHANGED <<current_group, rowIdx>>
            /\ hist' = [hist EXCEPT !.dispatched = Append(@, rowIdx),
                                    !.log = Append(@, RowEntry(rowIdx, row))]
    /\ rowsRead' = rowsRead + 1
    /\ iter' = 0
    /\ UNCHANGED <<config, columns, unit, pending, sheet, suite, receiver>>

\* One iteration of the repeat loop of TestCase::run: pre_run_ops,
\* execute_request, the Failed test and post_run_ops; after the last one the
\* rest of TestGroup::exec.
RunIteration(resp) ==
    /\ pc = "iter"
    /\ LET t == tc[1]
           g == current_group[1]
           pre == pre_run_ops(t, g.group_ctx)
           is_authorizer == t.data.config.auth_type = "authorizer"
           ctx2 == TestCtx_exec(pre.ctx, resp, is_authorizer, config)
           vr == verify_result(ctx2, t.data.scripts.post_test)
           result == IterationResult(vr.val)
           t2 == [pre.tc EXCEPT !.execution_state.result = result]
           done == iter + 1
           seen == WriteOf(t.data.scripts.pre_test, hist.globals)
           sent == [headers |-> pre.req.headers, url |-> pre.req.url,
                    name |-> pre.tc.execution_state.effective_name,
                    nameRaw |-> t.data.name, ok |-> resp.ok,
                    status |-> get_http_status(ctx2.runtime),
                    pre |-> t.data.scripts.pre_test,
                    post |-> t.data.scripts.post_test,
                    expTok |-> ExpectedToken(hist), expGlobals |-> seen,
                    tokBefore |-> pre.ctx.jwt_token, caseHeaders |-> t2.data.headers]
           held == IF is_authorizer THEN HeldToken(resp, config) ELSE None
       IN IF pre.panic
          THEN /\ pc' = "panicked"
               /\ UNCHANGED <<current_group, tc, iter, events, run, hist, rowIdx>>
          ELSE IF vr.panic
          THEN /\ pc' = "panicked"
               /\ current_group' = Some(StoreCtx(g, ctx2))
               /\ run' = [run EXCEPT !.req = Some(sent), !.sends = @ + 1,
                                     !.pres = @ + pre.pre_evals, !.resolves = @ + 1,
                                     !.posts = @ + 1,
                                     !.preSleeps = @ + pre.sleeps,
                                     !.sendTime = @ + resp.duration]
               /\ hist' = [hist EXCEPT !.toks = NoteToken(@, held),
                                       !.globals = seen]
               /\ UNCHANGED <<tc, iter, events, rowIdx>>
          ELSE /\ events' = Append(events, Ev("TestCaseEnd", t2.data.id, ""))
               /\ hist' = [hist EXCEPT
                              !.toks = NoteToken(@, held),
                              !.globals = WriteOf(t.data.scripts.post_test, seen)]
               /\ IF LoopEnds(result, done, t.data.config.repeat_count)
                  THEN /\ current_group' =
                            Some(CountResult(StoreCtx(g, vr.ctx),
                                             OverallResult(result)))
                       /\ run' = [run EXCEPT
                                     !.verdicts = Append(@, vr.val),
                                     !.result = result,
                                     !.req = Some(sent), !.sends = @ + 1,
                                     !.pres = @ + pre.pre_evals, !.resolves = @ + 1,
                                     !.posts = @ + Len(t.data.scripts.post_test),
                                     !.preSleeps = @ + pre.sleeps,
                                     !.postSleeps = @ + post_run_ops(t2).sleeps,
                                     !.sendTime = @ + resp.duration,
                                     !.returned = Some(OverallResult(result))]
                       /\ pc' = "rows"
                       /\ rowIdx' = rowIdx + 1
                       /\ tc' = None
                       /\ iter' = 0
                  ELSE /\ current_group' = Some(StoreCtx(g, vr.ctx))
                       /\ run' = [run EXCEPT
                                     !.verdicts = Append(@, vr.val),
                                     !.result = result,
                                     !.req = Some(sent), !.sends = @ + 1,
                                     !.pres = @ + pre.pre_evals, !.resolves = @ + 1,
                                     !.posts = @ + Len(t.data.scripts.post_test),
                                     !.preSleeps = @ + pre.sleeps,
                                     !.postSleeps = @ + post_run_ops(t2).sleeps,
                                     !.sendTime = @ + resp.duration]
                       /\ tc' = Some(t2)
                       /\ iter' = done
                       /\ UNCHANGED <<pc, rowIdx>>
    /\ UNCHANGED <<config, columns, unit, pending, sheet, rowsRead, suite, receiver>>

\* Fault variant: a failed case makes TestSuite::exec return an error.
ExecReturn_ErrOnFailed(ts) == [ok |-> ts.failed = 0, val |-> "Failed"]

\* What TestSuite::exec returns after the row loop.
ExecReturn(ts) == [ok |-> TRUE, val |-> "Passed"]

\* The exit code of the process: main exits with 1 when TSat::exec returns an
\* error, a panic ends the process with 101.
ExitCode ==
    CASE pc = "done" -> Some(0)
      [] pc = "failed" -> Some(1)
      [] pc = "panicked" -> Some(101)
      [] OTHER -> None

\* After the last row: finalize the trailing group, fire_end_evt, Ok(Passed).
EndOfSheet ==
    /\ pc = "rows"
    /\ LET fin == finalize_group(suite, current_group)
       IN /\ suite' = fin.suite
          /\ events' = (events \o fin.events) \o <<Ev("TestSuiteEnd", 0, SuiteName)>>
    /\ current_group' = None
    /\ pending' = Tail(pending)
    /\ pc' = IF ExecReturn(finalize_group(suite, current_group).suite).ok
             THEN "suite" ELSE "failed"
    /\ run' = NoRun
    /\ hist' = FreshHist(hist, current_group)
    /\ UNCHANGED <<config, columns, unit, sheet, rowIdx, rowsRead, tc, iter, receiver>>

\* TSat::exec returns Ok(()) once every sheet has run.
Finish ==
    /\ pc = "suite"
    /\ pending = <<>>
    /\ pc' = "done"
    /\ UNCHANGED <<config, columns, unit, pending, sheet, rowIdx, rowsRead, suite, current_group,
                   tc, iter, events, receiver, run, hist>>

\* The events of the run are sent while the Receiver is held: it is dropped
\* before exec or not at all, and the first send of exec is that of SuiteBegin.
Next ==
    \/ TSat_exec
    \/ DropReceiver
    \/ SuiteBegin
    \/ SkipRow
    \/ \E row \in Rows : GroupHeader(row)
    \/ \E row \in Rows : IgnoreRow(row)
    \/ \E row \in Rows : DispatchRow(row)
    \/ \E resp \in Responses : RunIteration(resp)
    \/ EndOfSheet
    \/ Finish

Spec == Init /\ [][Next]_vars

(***************************************************************************)
(* The runtime, the placeholder resolver and the row parser called on      *)
(* their own, as the unit tests of the repository call them.               *)
(***************************************************************************)
\* Largest number of segments of a string handed to the resolver.
MaxSegs == 2

runVars == <<config, columns, pc, pending, sheet, rowIdx, rowsRead, suite, current_group,
             tc, iter, events, receiver, run, hist>>

Callbacks == {"true", "false", "string", "void", "throw"}

\* The scripts evaluated: writes of a string, a number and an object to
\* SAT.globals.v, reads, scripts that throw or do not compile, and SAT.tester
\* with every kind of callback.
UnitScripts ==
    { ScSet("v", "x"), ScSetNum("v"), ScSetObj("v"), ScGlobalIs("v", "x"), ScStatusIs,
      ScNumber, ScThrow, ScSyntax }
    \cup { ScTester(name, cb) : name \in {"ok", "t2"}, cb \in Callbacks }

\* The segments of the strings resolved: text (with and without a $ that is
\* no keyword), a keyword, {{env:..}} of a set and of an unset variable,
\* {{v}}, {{w}} (never set) and {{a b}}.
Segments ==
    { Lit("a"), Lit("$5"), Kw("$UUID"), PhEnv("TIER"), PhEnv("NOPE"),
      PhJs("v"), PhJs("w"), PhJs("a b") }

Strings == UNION { [1..n -> Segments] : n \in 0..MaxSegs }

\* runtime.eval(script) on the runtime as earlier evals left it.
UnitEval(sc) ==
    /\ unit.op \in {"none", "eval"}
    /\ ~unit.panicked
    /\ LET r == JsEval(unit.rt, sc)
       IN unit' = [NoUnit EXCEPT !.op = "eval", !.panicked = r.panic, !.rt = r.rt,
                                 !.script = Some(sc),
                                 !.value = IF r.panic THEN None ELSE Some(r.val)]
    /\ UNCHANGED runVars

\* resolver.substitute_placeholders(original, &mut ts_ctx), on a context
\* whose runtime earlier evals have written to; the last call of a test.
UnitResolve(original) ==
    /\ unit.op \in {"none", "eval"}
    /\ ~unit.panicked
    /\ LET ctx == [TestCtx_new EXCEPT !.runtime = unit.rt]
           panics == ResolvePanics(original, ctx)
       IN unit' = [NoUnit EXCEPT !.op = "resolve", !.panicked = panics, !.rt = unit.rt,
                                 !.original = original,
                                 !.resolved = IF panics THEN <<>>
                                              ELSE substitute_placeholders(original, ctx)]
    /\ UNCHANGED runVars

\* TestCase::new(row, config) on a row of a range of the workbook.
UnitParse(row) ==
    /\ unit.op = "none"
    /\ LET cells == Clip(row, columns)
       IN unit' = [NoUnit EXCEPT !.op = "parse", !.panicked = IndexPanics(cells),
                                 !.rt = unit.rt, !.row = Some(row),
                                 !.case = IF IndexPanics(cells) THEN None
                                          ELSE Some(TestCase_new(cells, config))]
    /\ UNCHANGED runVars

\* The token_key settings of the calls: unset, the nested path of the
\* configurations, a flat key and a path the bodies do not hold.
TokenKeys == {None, Some(TokenKey), Some(<<"token">>), Some(<<"nonexistent", "key">>)}

\* The bodies handed to extract_token: text that is no JSON; objects that hold
\* a string, a number or nothing at data.access_token; a flat object; a
\* string; an object whose one key is the empty string.
UnitBodies ==
    { TextBody, TokenBody(JStr("T1")), TokenBody(JNum(7)),
      JsonBody(JObj("data" :> JStr("T1"))),
      JsonBody(JObj("token" :> JStr("abc123"))),
      JsonBody(JStr("T1")),
      JsonBody(JObj("" :> JStr("T3"))) }

\* Outcomes of request.send() in the calls of TestCtx::exec: a transport
\* failure, and a response with each body.
UnitResponses ==
    { [ok |-> FALSE, status |-> 0, body |-> TextBody, duration |-> 1] }
    \cup { [ok |-> TRUE, status |-> IF body.isJson THEN 200 ELSE 500, body |-> body,
            duration |-> 1] : body \in UnitBodies }

\* The contexts TestCtx::exec is called on: a new one, and one that holds a token.
UnitContexts == {TestCtx_new, update_token(TestCtx_new, Some("T0"))}

\* ts_ctx.exec(request, is_authorizer, &config) on a context of its own.
UnitExec(ctx, resp, is_authorizer, key) ==
    /\ unit.op = "none"
    /\ unit' = [NoUnit EXCEPT !.op = "exec", !.before = Some(ctx), !.resp = Some(resp),
                              !.authorizer = is_authorizer, !.key = key,
                              !.after = Some(TestCtx_exec(ctx, resp, is_authorizer,
                                                          [config EXCEPT !.token_key = key]))]
    /\ UNCHANGED runVars

\* extract_token(body, &config), as the tests of test_context.rs call it.
UnitExtract(body, key) ==
    /\ unit.op = "none"
    /\ unit' = [NoUnit EXCEPT !.op = "extract",
                              !.resp = Some([ok |-> TRUE, status |-> 200, body |-> body,
                                             duration |-> 0]),
                              !.key = key,
                              !.token = extract_token(body, [config EXCEPT !.token_key = key])]
    /\ UNCHANGED runVars

\* The rows of the cases pre_run_ops is called on: name, url and payload hold
\* {{v}}; no pre-script, and pre-scripts that write a string to SAT.globals.v,
\* that write another string on every evaluation, and that throw.
UnitCaseRows ==
    { CaseRow(FloatCell(3), NameCell, AbsUrlCell, GetCell, EmptyCell, VarPayloadCell,
              CfgCell(MaxRepeat, "none", 0), pre, Some(ScStatusIs)) :
        pre \in {None, Some(ScSet("v", "x")), Some(ScToggle("v")), Some(ScThrow)} }

\* The record of a call of pre_run_ops on a case and a context.
PreRun(t, ctx, calls) ==
    LET r == pre_run_ops(t, ctx)
    IN [NoUnit EXCEPT !.op = "prerun", !.panicked = r.panic, !.rt = r.ctx.runtime,
                      !.case = Some(r.tc), !.before = Some(ctx), !.after = Some(r.ctx),
                      !.calls = calls]

\* The first iteration of a case: self.pre_run_ops(ts_ctx, sys_config) on a
\* case parsed from a row, with a context whose runtime earlier evals have
\* written to.
UnitPreRun(row) ==
    /\ unit.op \in {"none", "eval"}
    /\ ~unit.panicked
    /\ ~IndexPanics(Clip(row, columns))
    /\ unit' = PreRun(TestCase_new(Clip(row, columns), config),
                      [TestCtx_new EXCEPT !.runtime = unit.rt], 1)
    /\ UNCHANGED runVars

\* A later iteration: pre_run_ops on the same case and the context as the
\* earlier iteration left it.
UnitPreRunAgain ==
    /\ unit.op = "prerun"
    /\ ~unit.panicked
    /\ unit.calls < unit.case[1].data.config.repeat_count
    /\ unit' = PreRun(unit.case[1], unit.after[1], unit.calls + 1)
    /\ UNCHANGED runVars

UnitNext ==
    \/ \E sc \in UnitScripts : UnitEval(sc)
    \/ \E original \in Strings : UnitResolve(original)
    \/ \E row \in CaseRows : UnitParse(row)
    \/ \E ctx \in UnitContexts, resp \in UnitResponses, a \in BOOLEAN, key \in TokenKeys :
          UnitExec(ctx, resp, a, key)
    \/ \E body \in UnitBodies, key \in TokenKeys : UnitExtract(body, key)
    \/ \E row \in UnitCaseRows : UnitPreRun(row)
    \/ UnitPreRunAgain

UnitSpec == Init /\ [][UnitNext]_vars

\* The process keeps running until it exits.
FairSpec == Spec /\ WF_vars(Next)

(***************************************************************************)
(* Properties.                                                             *)
(***************************************************************************)
Group == current_group[1]
Ctx == current_group[1].group_ctx

\* The case events fired since the latest TestCase::run began.
RunEvents(type) ==
    { i \in (run.evAt + 1)..Len(events) : events[i].type = type }

AllTrue(verdicts) == \A i \in 1..Len(verdicts) : verdicts[i]

\* C1: a row with a parse error is Skipped by run, which sends nothing and
\* evaluates neither the pre- nor the post-script, whatever the context holds
\* and whatever repeatCount the row asks for.
C1_ParseErrorSkipped ==
    run.hadErrors =>
        /\ run.returned = Some("Skipped")
        /\ run.sends = 0 /\ run.pres = 0 /\ run.posts = 0 /\ run.resolves = 0
        /\ pc # "iter"

\* A row with parse errors, asking for repeats, skipped in a group whose
\* context already holds a token and a response.
C1_Witness ==
    /\ run.hadErrors
    /\ run.returned = Some("Skipped")
    /\ current_group # None
    /\ Ctx.jwt_token # None
    /\ Ctx.runtime.response # None

\* C2: in every state of every group, passed + failed + skipped = total.
C2_CountersAddUp ==
    current_group # None =>
        Group.passed + Group.failed + Group.skipped = Group.total

\* A group that has counted a skipped row and a repeated row that failed.
C2_Witness ==
    /\ current_group # None
    /\ Group.skipped = 1
    /\ Group.failed = 1
    /\ Group.total = 2
    /\ run.repeat = MaxRepeat

IsBegin(e) == e.type \in {"TestSuiteBegin", "TestGroupBegin", "TestCaseBegin"}

BeginOf(type) ==
    CASE type = "TestSuiteEnd" -> "TestSuiteBegin"
      [] type = "TestGroupEnd" -> "TestGroupBegin"
      [] OTHER -> "TestCaseBegin"

\* The Begin events of `open` that an End event e matches.
Matches(open, e) ==
    { i \in 1..Len(open) :
        open[i].type = BeginOf(e.type) /\ open[i].id = e.id /\ open[i].name = e.name }

Max(S) == CHOOSE x \in S : \A y \in S : y <= x

Without(seq, i) == SubSeq(seq, 1, i - 1) \o SubSeq(seq, i + 1, Len(seq))

\* Every End of evs ends a Begin that is still open (open: the Begin events
\* not yet ended, oldest first).
RECURSIVE EndsMatched(_, _)
EndsMatched(evs, open) ==
    IF evs = <<>> THEN TRUE
    ELSE IF IsBegin(Head(evs)) THEN EndsMatched(Tail(evs), Append(open, Head(evs)))
    ELSE /\ Matches(open, Head(evs)) # {}
         /\ EndsMatched(Tail(evs), Without(open, Max(Matches(open, Head(evs)))))

\* C3: every End event (case, group, suite) is preceded by its own Begin
\* event with the same id/name that has not been ended yet, for every case
\* outcome and every repeatCount.
C3_EveryEndHasOpenBegin == EndsMatched(events, <<>>)

\* Spans nest without overlap: st = [suite, group, case] says which span is open.
RECURSIVE Nested(_, _)
Nested(evs, st) ==
    IF evs = <<>> THEN TRUE
    ELSE LET e == Head(evs)
         IN CASE e.type = "TestSuiteBegin" ->
                    ~st.suite /\ Nested(Tail(evs), [st EXCEPT !.suite = TRUE])
              [] e.type = "TestSuiteEnd" ->
                    st.suite /\ st.group = None
                    /\ Nested(Tail(evs), [st EXCEPT !.suite = FALSE])
              [] e.type = "TestGroupBegin" ->
                    st.suite /\ st.group = None
                    /\ Nested(Tail(evs), [st EXCEPT !.group = Some(e.name), !.case = FALSE])
              [] e.type = "TestGroupEnd" ->
                    st.suite /\ st.group = Some(e.name)
                    /\ Nested(Tail(evs), [st EXCEPT !.group = None])
              [] e.type = "TestCaseBegin" ->
                    st.group # None /\ ~st.case
                    /\ Nested(Tail(evs), [st EXCEPT !.case = TRUE])
              [] OTHER ->
                    st.group # None
                    /\ Nested(Tail(evs), [st EXCEPT !.case = FALSE])

\* C4: case events lie between the TestGroupBegin and TestGroupEnd of their
\* group, group events between a TestSuiteBegin and its TestSuiteEnd, and no
\* two group spans and no two case spans overlap (no case begins while an
\* earlier case has not ended).
C4_SpansStrictlyNested ==
    Nested(events, [suite |-> FALSE, group |-> None, case |-> FALSE])

\* C5: the repeat loop is fail-fast: an iteration runs only while every
\* earlier verdict was true, each iteration makes one resolution pass and one
\* send, and a case whose first verdict is false has sent once, is Failed and
\* has one TestCaseBegin and one TestCaseEnd in the stream.
C5_RepeatFailFast ==
    (~run.hadErrors /\ pc # "panicked") =>
        /\ pc = "iter" => AllTrue(run.verdicts)
        /\ \A k \in 1..Len(run.verdicts) : ~run.verdicts[k] => Len(run.verdicts) = k
        /\ run.sends = Len(run.verdicts)
        /\ run.resolves = Len(run.verdicts)
        /\ run.pres <= Len(run.verdicts)
        /\ (run.verdicts # <<>> /\ ~run.verdicts[1]) =>
                /\ run.sends = 1
                /\ run.returned = Some("Failed")
                /\ Cardinality(RunEvents("TestCaseBegin")) = 1
                /\ Cardinality(RunEvents("TestCaseEnd")) = 1

\* A case asking for MaxRepeat iterations that failed on the first one.
C5_Witness ==
    /\ run.repeat = MaxRepeat
    /\ run.repeat > 1
    /\ run.verdicts = <<FALSE>>
    /\ run.returned = Some("Failed")

\* C6: for a row without parse errors run returns Passed iff every executed
\* iteration's verdict was true, Failed otherwise, never NotYetTested.
C6_PassedIffAllVerdictsTrue ==
    (~run.hadErrors /\ run.returned # None) =>
        /\ run.returned[1] \in {"Passed", "Failed"}
        /\ run.returned[1] = "Passed" <=> AllTrue(run.verdicts)

\* A repeated case that passed every iteration.
C6_Witness ==
    /\ ~run.hadErrors
    /\ run.returned = Some("Passed")
    /\ Len(run.verdicts) = MaxRepeat

HasAuthorization(headers) ==
    \E i \in 1..Len(headers) : headers[i][1] = "Authorization"

\* C7: the request of an authorized case sent before any authorizer of the
\* group has received a response holding a token carries no Authorization
\* header.
C7_NoTokenNoHeader ==
    (run.req # None /\ run.auth = "authorized" /\ run.req[1].expTok = None) =>
        ~HasAuthorization(run.req[1].headers)

\* An authorized case that sent its request after an earlier case of the
\* group, with no token held by any authorizer response so far.
C7_Witness ==
    /\ run.req # None
    /\ run.auth = "authorized"
    /\ run.req[1].expTok = None
    /\ Len(hist.dispatched) = 2

\* C8: once an authorizer response of the group held the string T at
\* token_key, the request of every later authorized case of the group carries
\* Authorization: Bearer T, T being the token held most recently.
C8_BearerIsLatestToken ==
    (run.req # None /\ run.auth = "authorized" /\ run.req[1].expTok # None) =>
        /\ \E i \in 1..Len(run.req[1].headers) :
              run.req[1].headers[i] = <<"Authorization", <<"Bearer", run.req[1].expTok[1]>> >>
        /\ \A i \in 1..Len(run.req[1].headers) :
              run.req[1].headers[i][1] = "Authorization" =>
                  run.req[1].headers[i][2] = <<"Bearer", run.req[1].expTok[1]>>

\* An authorized request sent after two authorizer responses held different tokens.
C8_Witness ==
    /\ run.req # None
    /\ run.auth = "authorized"
    /\ Len(hist.toks) = 2
    /\ hist.toks[1] # hist.toks[2]
    /\ run.req[1].expTok = Some(hist.toks[2])

\* C9: no state carries over between groups: a group to which no row has been
\* dispatched yet holds no token, empty SAT.globals and no SAT.response, and
\* at any time the token and globals of the context are those the cases of
\* this group wrote.
C9_GroupStartsFresh ==
    current_group # None =>
        /\ hist.dispatched = <<>> =>
              /\ Ctx.jwt_token = None
              /\ \A x \in Vars : Ctx.runtime.globals[x] = None
              /\ Ctx.runtime.response = None
        /\ pc # "panicked" =>
              /\ Ctx.jwt_token = ExpectedToken(hist)
              /\ Ctx.runtime.globals = hist.globals

\* A group that begins after an earlier group whose context had been written to.
C9_Witness ==
    /\ current_group # None
    /\ hist.dispatched = <<>>
    /\ hist.prevDirty
    /\ Len(suite.test_groups) >= 1

\* The string a resolution pass yields when it sees the globals g.
ResolvedWith(segs, g) ==
    [i \in 1..Len(segs) |->
        IF segs[i].k = "js" /\ segs[i].s \in Vars /\ g[segs[i].s] # None
           /\ g[segs[i].s][1].t = "str"
        THEN Lit(g[segs[i].s][1].s)
        ELSE segs[i]]

\* C10: within a group the cases run one at a time in row order, and the
\* pre-script, the resolution pass and the post-script of a case see every
\* write earlier cases of the group made to SAT.globals and to the token.
C10_CasesSeeEarlierWrites ==
    (current_group # None /\ pc # "panicked") =>
        /\ \A i, j \in 1..Len(hist.dispatched) :
              i < j => hist.dispatched[i] < hist.dispatched[j]
        /\ pc = "iter" => run.row = hist.dispatched[Len(hist.dispatched)]
        /\ Ctx.runtime.globals = hist.globals
        /\ Ctx.jwt_token = ExpectedToken(hist)
        /\ run.req # None =>
              run.req[1].name = ResolvedWith(run.req[1].nameRaw, run.req[1].expGlobals)

\* A case without a pre-script whose name was resolved with a global that an
\* earlier case of the group wrote.
C10_Witness ==
    /\ current_group # None
    /\ Len(hist.dispatched) = 2
    /\ run.req # None
    /\ run.pres = 0
    /\ run.req[1].name = <<Lit("case "), Lit("x")>>

\* The events of the running (or latest) TestSuite::exec call, its
\* TestSuiteBegin left out.
LastSuiteBegin ==
    Max({0} \cup { i \in 1..Len(events) : events[i].type = "TestSuiteBegin" })

SheetEvents == SubSeq(events, LastSuiteBegin + 1, Len(events))

EventsOf(evs, types) == SelectSeq(evs, LAMBDA e : e.type \in types)

\* Do the selectors of the configuration allow group `name` of sheet `sh`?  No
\* selector allows everything; a selector without a sheet speaks of the sheet
\* being run.
SelectorAllows(cfg, sh, name) ==
    \/ cfg.groups = None
    \/ cfg.groups[1] = <<>>
    \/ \E i \in 1..Len(cfg.groups[1]) :
          /\ cfg.groups[1][i][2] = name
          /\ cfg.groups[1][i][1] \in {None, Some(sh)}

\* The most recent header at or above position n of the log (0: none).
LastHeader(log, n) == Max({0} \cup { i \in 1..n : log[i].header })

\* Is position n of the log under a header the selectors allow?
UnderAllowedHeader(log, n) ==
    /\ LastHeader(log, n) # 0
    /\ SelectorAllows(config, sheet, log[LastHeader(log, n)].name)

\* The case rows of the log that are to be executed.
ToExecute(log) == { n \in 1..Len(log) : ~log[n].header /\ UnderAllowedHeader(log, n) }

\* The names of the headers of the log the selectors allow, in order.
AllowedHeaders(log) ==
    LET hs == SelectSeq(log, LAMBDA r : r.header /\ SelectorAllows(config, sheet, r.name))
    IN [i \in 1..Len(hs) |-> hs[i].name]

\* C11: in every sheet the groups that begin are exactly the headers the
\* selectors allow for that sheet (all of them when there is no selector),
\* the rows executed are exactly the case rows under such a header, and a sheet
\* none of whose groups is allowed yields no group event and no case event.
C11_GroupFiltering ==
    LET begun == EventsOf(SheetEvents, {"TestGroupBegin"})
    IN /\ [i \in 1..Len(begun) |-> begun[i].name] = AllowedHeaders(hist.log)
       /\ Len(EventsOf(SheetEvents, {"TestCaseBegin"})) = Cardinality(ToExecute(hist.log))
       /\ (\A name \in GroupNames : ~SelectorAllows(config, sheet, name)) =>
              EventsOf(SheetEvents, {"TestGroupBegin", "TestGroupEnd",
                                     "TestCaseBegin", "TestCaseEnd"}) = <<>>
       /\ (config.groups = None /\ pc = "rows" /\ hist.log # <<>>
           /\ hist.log[Len(hist.log)].header) =>
              /\ current_group # None
              /\ current_group[1].name = hist.log[Len(hist.log)].name

\* The second sheet of an all-sheets run whose selectors allow a group of the
\* first sheet only: the case of the first sheet ran, the header of the second
\* sheet has been read and has begun no group.
C11_Witness ==
    /\ config.worksheet = None
    /\ config.groups # None
    /\ sheet = "S2"
    /\ suite.total >= 1
    /\ Len(hist.log) = 1
    /\ hist.log[1].header
    /\ SheetEvents = <<>>

CaseEventTypes == {"TestCaseBegin", "TestCaseEnd"}

\* C12: reading a Group: row never fires a case event, creates no case and
\* starts no run; reading a case row that is under no header, or under a
\* header the selectors reject, fires no event and changes no counter, no
\* group and no case.
C12_ControlAndInactiveRows ==
    [][ Len(hist'.log) = Len(hist.log) + 1 =>
          LET n == Len(hist'.log)
              e == hist'.log[n]
          IN /\ e.header =>
                   /\ EventsOf(events', CaseEventTypes) = EventsOf(events, CaseEventTypes)
                   /\ tc' = None
                   /\ run' = NoRun
                   /\ pc' = "rows"
             /\ (~e.header /\ ~UnderAllowedHeader(hist'.log, n)) =>
                   /\ current_group = None
                   /\ events' = events
                   /\ suite' = suite
                   /\ current_group' = current_group
                   /\ tc' = tc
                   /\ run' = run
       ]_vars

\* A sheet read under selectors that allow alpha only: the alpha header began
\* a group, the beta header ended it and was rejected, and the case row that
\* follows has been read without any case event.
C12_Witness ==
    /\ config.groups # None
    /\ Len(hist.log) = 3
    /\ hist.log[1].header /\ hist.log[2].header /\ ~hist.log[3].header
    /\ suite.test_groups = <<"alpha">>
    /\ current_group = None
    /\ EventsOf(events, CaseEventTypes) = <<>>
    /\ suite.total = 0

ExpectedVerdict(post, status, globals) ==
    IF post = None THEN FALSE
    ELSE CASE post[1].op = "status200" -> status = 200
           [] post[1].op = "globalIs" -> globals[post[1].var] = Some(JStr(post[1].val))
           [] OTHER -> FALSE

C15_SkippedCaseSetsResultAndEnds ==
    (run.hadErrors /\ run.returned # None) =>
        /\ run.returned = Some("Skipped")
        /\ Cardinality(RunEvents("TestCaseBegin")) = 1
        /\ run.result = "Skipped"
        /\ Cardinality(RunEvents("TestCaseEnd")) = 1

\* A step that keeps the running group (no header is read, no sheet ends).
SameGroupStep ==
    /\ current_group # None
    /\ current_group' # None
    /\ ~(Len(hist'.log) = Len(hist.log) + 1 /\ hist'.log[Len(hist'.log)].header)

\* A step in which TestCase::run returns.
RunReturns ==
    /\ run'.returned # None
    /\ (Len(hist'.log) = Len(hist.log) + 1 \/ run.returned = None)

\* C16: every row dispatched to a group adds exactly 1 to the group's total
\* and exactly 1 to exactly one of passed, failed, skipped, when its run
\* returns and at no other time (not per iteration); total is the number of
\* rows dispatched to the group whose run has returned.
C16_CountedOncePerRow ==
    /\ [](current_group # None /\ pc # "panicked" =>
             Group.total = Len(hist.dispatched) - (IF pc = "iter" THEN 1 ELSE 0))
    /\ [][ SameGroupStep =>
             LET g == current_group[1]
                 h == current_group'[1]
             IN /\ h.total - g.total = (IF RunReturns THEN 1 ELSE 0)
                /\ h.passed - g.passed \in {0, 1}
                /\ h.failed - g.failed \in {0, 1}
                /\ h.skipped - g.skipped \in {0, 1}
                /\ (h.passed - g.passed) + (h.failed - g.failed) + (h.skipped - g.skipped)
                      = h.total - g.total
         ]_vars

\* A group that has counted two rows, the second after MaxRepeat iterations.
C16_Witness ==
    /\ current_group # None
    /\ Group.total = 2
    /\ Len(hist.dispatched) = 2
    /\ MaxRepeat > 1
    /\ Len(run.verdicts) = MaxRepeat
    /\ run.returned # None

Positions(type) == { i \in 1..Len(events) : events[i].type = type }

\* C17: a run emits exactly one TestSuiteBegin, before every other event, and
\* exactly one TestSuiteEnd, after every other event.
C17_OneSuiteSpanPerRun ==
    /\ Cardinality(Positions("TestSuiteBegin")) <= 1
    /\ Cardinality(Positions("TestSuiteEnd")) <= 1
    /\ events # <<>> => events[1].type = "TestSuiteBegin"
    /\ \A i \in Positions("TestSuiteEnd") : i = Len(events)
    /\ pc = "done" => Cardinality(Positions("TestSuiteEnd")) = 1

\* C18: every TestGroupBegin is eventually followed by a TestGroupEnd (the
\* n-th group that begins also ends), and no TestSuiteEnd is fired while a
\* group that began has not ended.
C18_GroupBeginLeadsToEnd ==
    /\ [](\A i \in Positions("TestSuiteEnd") :
             Cardinality({ b \in Positions("TestGroupBegin") : b < i })
               = Cardinality({ e \in Positions("TestGroupEnd") : e < i }))
    /\ \A n \in 1..(MaxRows + 1) :
          (Cardinality(Positions("TestGroupBegin")) >= n)
             ~> (Cardinality(Positions("TestGroupEnd")) >= n)

\* The test contexts that exist: the one of the running group and the one
\* inside every group kept in test_groups.
LiveContexts == Len(suite.test_groups) + (IF current_group # None THEN 1 ELSE 0)

\* C19: the context of a group is released when the group is finalized: the
\* contexts of two groups never exist together.
C19_OneContextAtATime == LiveContexts <= 1

\* C20: when every sheet is processed start_row and end_row have no effect:
\* the rows read are those read when both are unset, the rows from index
\* DefaultStartRow on.
C20_RowRangeIgnoredForAllSheets ==
    config.worksheet = None =>
        \A i \in 1..Len(hist.log) : hist.log[i].idx >= DefaultStartRow

\* Is a row index inside [start_row, end_row] (end_row unbounded when unset)?
InRowRange(cfg, idx) ==
    /\ idx >= (IF cfg.start_row = None THEN DefaultStartRow ELSE cfg.start_row[1])
    /\ cfg.end_row # None => idx <= cfg.end_row[1]

\* C21: in a single-worksheet run no row with an index below start_row or
\* above end_row is parsed, executed or treated as a group header.
C21_OnlyRowsInRange ==
    config.worksheet # None =>
        /\ \A i \in 1..Len(hist.log) :
              hist.log[i].header => InRowRange(config, hist.log[i].idx)
        /\ \A i \in 1..Len(hist.dispatched) : InRowRange(config, hist.dispatched[i])

\* C22: sending an event never fails the producer, also when the consumer has
\* dropped the Receiver or never reads: no send ends the run, which goes on to
\* read its rows (what stops a run early lies in a case, not in a send).
C22_SendNeverFailsProducer ==
    /\ (receiver = "dropped" /\ pc = "panicked") => (tc # None \/ hist.dispatched # <<>>)
    /\ (receiver = "dropped" /\ pc \in {"rows", "iter", "done"}) =>
            events # <<>> /\ events[1].type = "TestSuiteBegin"

\* A pre-script that fails: it throws, or it cannot be compiled.
PreFails(script) == script # None /\ script[1].op \in {"throw", "syntax"}

\* C23: a failing pre-script does not end the iteration: the resolution pass,
\* the send and the post-script evaluation of that iteration still happen, and
\* the run goes on with the rows that follow.
C23_PreScriptFailureIsNotFatal ==
    /\ (tc # None /\ PreFails(tc[1].data.scripts.pre_test) /\ pc = "panicked") =>
            run.sends > iter
    /\ (run.req # None /\ PreFails(run.req[1].pre)) =>
            /\ run.pres = run.sends
            /\ run.resolves = run.sends
            /\ pc # "panicked" =>
                  /\ Len(run.verdicts) = run.sends
                  /\ run.posts = run.sends * Len(run.req[1].post)
                  /\ pc \in {"rows", "iter", "suite", "done"}

\* C24: an iteration is Passed if and only if its post-script exists and
\* evaluates to exactly true on the response and globals it sees; a missing
\* post-script, a script error and every other completion value give Failed.
\* Every iteration that sent its request gets one of the two.
C24_PassedIffPostScriptTrue ==
    run.req # None =>
        /\ Len(run.verdicts) = run.sends
        /\ run.verdicts[Len(run.verdicts)] =
              ExpectedVerdict(run.req[1].post, run.req[1].status, run.req[1].expGlobals)
        /\ run.result = IF run.verdicts[Len(run.verdicts)] THEN "Passed" ELSE "Failed"

\* Has SAT.tester(name, cb) just been evaluated on its own?
TesterCalled == unit.op = "eval" /\ unit.script[1].op = "tester"

\* C25: SAT.tester(name, fn) evaluates to the boolean true when fn returns
\* exactly true and to the boolean false in every other case: fn returns
\* false, a non-boolean or nothing, or fn throws.
C25_TesterIsStrictBoolean ==
    TesterCalled =>
        /\ ~unit.panicked
        /\ unit.value = Some(JBool(unit.script[1].val = "true"))

\* C26: after a call SAT.tester(name, fn) SAT.testName is name: get_test_name
\* returns the name of the latest assertion.
C26_TesterRecordsName ==
    TesterCalled => get_test_name(unit.rt) = unit.script[1].var

\* What a piece of a string is to become: the value of a set environment
\* variable or of a global that holds a string, and itself in every other case.
ExpectedSegment(seg, globals) ==
    CASE seg.k = "env" -> IF EnvVar(seg.s) # None THEN Lit(EnvVar(seg.s)[1]) ELSE seg
      [] seg.k = "js" ->
            IF seg.s \in Vars /\ globals[seg.s] # None /\ globals[seg.s][1].t = "str"
            THEN Lit(globals[seg.s][1].s) ELSE seg
      [] OTHER -> seg

\* C27: a placeholder that cannot be resolved stays in the output as it is
\* ({{env:X}} with X unset, {{v}} with SAT.globals.v missing, not a string or
\* failing to evaluate), and the rest of the string and its other placeholders
\* are resolved as usual.
C27_UnresolvedPlaceholderKept ==
    unit.op = "resolve" =>
        /\ ~unit.panicked
        /\ LET expanded == substitute_keywords(unit.original)
           IN unit.resolved =
                 [i \in 1..Len(expanded) |-> ExpectedSegment(expanded[i], unit.rt.globals)]

HasPlaceholder(str) == \E i \in 1..Len(str) : str[i].k \in {"env", "js"}

HasKeyword(str) == \E i \in 1..Len(str) : str[i].k = "kw"

\* C28 as stated: substitute_placeholders returns every string without a
\* {{...}} placeholder unchanged.
C28_NoPlaceholderIsIdentity ==
    (unit.op = "resolve" /\ ~HasPlaceholder(unit.original)) =>
        unit.resolved = unit.original

\* C28 as amended: substitute_placeholders returns every string that has
\* neither a {{...}} placeholder nor a $-keyword unchanged, whatever the
\* runtime holds.
C28_NoPlaceholderNoKeywordIsIdentity ==
    (unit.op = "resolve" /\ ~HasPlaceholder(unit.original) /\ ~HasKeyword(unit.original)) =>
        /\ ~unit.panicked
        /\ unit.resolved = unit.original

\* A string of MaxSegs pieces of text, one of them with a $ that is no
\* keyword, resolved on a runtime whose SAT.globals.v is set.
C28_Witness ==
    /\ unit.op = "resolve"
    /\ Len(unit.original) = MaxSegs
    /\ ~HasPlaceholder(unit.original) /\ ~HasKeyword(unit.original)
    /\ \E i \in 1..Len(unit.original) : unit.original[i] = Lit("$5")
    /\ unit.rt.globals["v"] # None
    /\ unit.resolved = unit.original

\* C29: the case built from a row whose pre-script cell is set and which has a
\* parse error in another field still holds the pre-script and the fields
\* that did parse (its id, its name), together with the errors.
C29_PreScriptKeptOnParseError ==
    (unit.op = "parse" /\ unit.case # None /\ unit.case[1].errors # <<>>
     /\ GetString(Cell(unit.row[1], 10)) # None) =>
        LET row == unit.row[1]
            data == unit.case[1].data
        IN /\ data.scripts.pre_test = GetString(Cell(row, 10))
           /\ GetFloat(Cell(row, 0)) # None => data.id = GetFloat(Cell(row, 0))[1]
           /\ GetString(Cell(row, 1)) # None =>
                 data.name = substitute_keywords(GetString(Cell(row, 1))[1])

\* C30: every non-header row dispatched to an active group yields exactly one
\* case counted in the group's total, whatever cells the row has (a malformed
\* row as Skipped), and no such row ends the run: the rows dispatched are the
\* cases counted, plus the one whose scripts are running.
C30_EveryRowYieldsOneCase ==
    current_group # None =>
        /\ Group.test_cases = Group.total
        /\ Len(hist.dispatched) =
              Group.total + (IF pc = "iter" \/ (pc = "panicked" /\ tc # None) THEN 1 ELSE 0)
        /\ run.hadErrors =>
              /\ run.returned = Some("Skipped")
              /\ Group.skipped >= 1
              /\ pc = "rows"

\* The call of TestCtx::exec made on its own, and the configuration it read.
ExecConfig == [config EXCEPT !.token_key = unit.key]

\* C31: when the response of an authorizer holds no string at token_key's
\* path (its body is not JSON, the path is absent from it or ends at a value
\* that is no string) or the send failed at transport level, the bearer token
\* of the context after exec is the one it held before.
C31_TokenKeptWithoutNewToken ==
    (unit.op = "exec" /\ unit.authorizer /\ HeldToken(unit.resp[1], ExecConfig) = None) =>
        unit.after[1].jwt_token = unit.before[1].jwt_token

\* An authorizer whose JSON response holds a number at the configured
\* token_key, called on a context that held a token.
C31_Witness ==
    /\ unit.op = "exec"
    /\ unit.authorizer
    /\ unit.before[1].jwt_token = Some("T0")
    /\ unit.key = Some(TokenKey)
    /\ unit.resp[1].body = TokenBody(JNum(7))
    /\ unit.after[1].jwt_token = Some("T0")

\* The string a body holds at the end of a path of keys, if any.
StringAt(body, keys) ==
    IF ~body.isJson THEN None
    ELSE LET at == JsonAt(body.val, keys)
         IN IF at # None /\ at[1].t = "str" THEN Some(at[1].s) ELSE None

\* C35: extract_token returns the string found by walking the keys of
\* token_key through the JSON body; it returns None when a key of the path is
\* missing, when the value at its end is no string, when the body is no JSON,
\* and, for every body, when token_key is not configured.
C35_ExtractWalksTokenKey ==
    unit.op = "extract" =>
        unit.token = (IF unit.key = None THEN None
                      ELSE StringAt(unit.resp[1].body, unit.key[1]))

\* The headers of a list that the request builder is given (all but Content-Type).
Forwarded(headers) == SelectSeq(headers, LAMBDA h : ToLowercase(h[1]) # "content-type")

\* C32: attaching the bearer token does not modify the case record: after
\* every iteration the headers of the case are those parsed from its row, and
\* the request of every iteration carries the row's headers and, for an
\* authorized case in a context that holds a token, exactly one Authorization
\* header made from the token, also with repeat_count > 1.
C32_AttachLeavesCaseRecord ==
    run.req # None =>
        /\ run.req[1].caseHeaders = run.rowHeaders
        /\ run.req[1].headers =
              Forwarded(run.rowHeaders)
              \o (IF run.auth = "authorized" /\ run.req[1].tokBefore # None
                  THEN << <<"Authorization", <<"Bearer", run.req[1].tokBefore[1]>> >> >>
                  ELSE <<>>)
        /\ tc # None => tc[1].data.headers = run.rowHeaders

\* The last of MaxRepeat iterations of an authorized case, its request
\* carrying the token.
C32_Witness ==
    /\ run.req # None
    /\ run.auth = "authorized"
    /\ run.repeat > 1
    /\ run.sends = run.repeat
    /\ run.req[1].tokBefore # None
    /\ HasAuthorization(run.req[1].headers)

\* Does a script assign a string to SAT.globals.v?
AssignsString(script) == script # None /\ script[1].op \in {"set", "toggle"}

\* C33: in every iteration the pre-script is evaluated before the resolution
\* pass: when the case's own pre-script assigns a string to SAT.globals.v,
\* the effective name, url and payload of that iteration hold that string in
\* place of {{v}}, and every iteration resolves again, against the context as
\* its own pre-script left it.
C33_PreScriptBeforeResolution ==
    (unit.op = "prerun" /\ ~unit.panicked
       /\ AssignsString(unit.case[1].data.scripts.pre_test)) =>
        LET t == unit.case[1]
            g == WriteOf(t.data.scripts.pre_test, unit.before[1].runtime.globals)
        IN /\ g["v"] # None /\ g["v"][1].t = "str"
           /\ unit.after[1].runtime.globals = g
           /\ t.execution_state.effective_name = ResolvedWith(t.data.name, g)
           /\ t.execution_state.effective_url = ResolvedWith(t.data.url, g)
           /\ t.execution_state.effective_payload = ResolvedWith(t.data.payload, g)
           /\ \A i \in 1..Len(t.execution_state.effective_url) :
                 t.execution_state.effective_url[i].k # "js"

\* The second iteration of a case whose pre-script writes another string on
\* every evaluation: its url holds the string of the second evaluation.
C33_Witness ==
    /\ unit.op = "prerun"
    /\ unit.calls = 2
    /\ unit.case[1].data.scripts.pre_test = Some(ScToggle("v"))
    /\ unit.case[1].execution_state.effective_url = <<Lit("http://h/"), Lit("y")>>
    /\ unit.case[1].execution_state.effective_payload[2] = Lit("y")
    /\ unit.case[1].execution_state.effective_name[2] = Lit("y")

\* The iterations of the latest run whose result was Passed.
PassedIterations == Cardinality({ i \in 1..Len(run.verdicts) : run.verdicts[i] })

\* C34: with delay > 0 a case sleeps once before each send and once more
\* after each iteration that Passed, and not after an iteration that Failed;
\* with delay = 0 it never sleeps.
C34_SleepAfterPassedOnly ==
    (run.req # None /\ pc # "panicked") =>
        /\ run.delay = 0 => (run.preSleeps = 0 /\ run.postSleeps = 0)
        /\ run.delay > 0 =>
              /\ run.preSleeps = run.sends
              /\ run.postSleeps = PassedIterations

\* A step that ends the running group.
GroupEnds ==
    /\ current_group # None
    /\ pc' # "panicked"
    /\ (current_group' = None \/ current_group'[1].name # current_group[1].name)

LastEventIs(type) == events # <<>> /\ events[Len(events)].type = type

\* C36: the counters of the suite are the sums of the counters of the groups
\* that have run: they start at 0, the step that ends a group adds that
\* group's total, passed, failed and skipped once, no other step changes
\* them, and no group is running when a TestSuiteEnd is fired; so passed +
\* failed + skipped = total for the suite.
C36_SuiteCountsSumOfGroups ==
    /\ [](suite.passed + suite.failed + suite.skipped = suite.total)
    /\ [](Len(suite.test_groups) = Cardinality(Positions("TestGroupEnd")))
    /\ [](LastEventIs("TestSuiteEnd") => current_group = None)
    /\ [][ IF GroupEnds
           THEN /\ suite'.total = suite.total + current_group[1].total
                /\ suite'.passed = suite.passed + current_group[1].passed
                /\ suite'.failed = suite.failed + current_group[1].failed
                /\ suite'.skipped = suite.skipped + current_group[1].skipped
                /\ Len(suite'.test_groups) = Len(suite.test_groups) + 1
           ELSE suite' = suite ]_vars

\* A TestSuiteEnd fired after two groups, one of which had counted a skipped
\* row, have been added to the suite.
C36_Witness ==
    /\ LastEventIs("TestSuiteEnd")
    /\ Len(suite.test_groups) = 2
    /\ suite.skipped = 1
    /\ suite.total >= 1

\* C37: the bearer token of a group changes only in the step in which a case
\* with auth_type authorizer sends its request: the iterations of cases with
\* auth_type none or authorized, skipped cases and the evaluation of pre- and
\* post-scripts leave it as it was.
C37_TokenChangesOnlyInAuthorizerSend ==
    /\ [][ (SameGroupStep /\ current_group'[1].group_ctx.jwt_token # Ctx.jwt_token) =>
             /\ pc = "iter"
             /\ tc[1].data.config.auth_type = "authorizer"
             /\ run'.sends = run.sends + 1 ]_vars
    /\ []((current_group # None /\ run.req # None /\ run.auth # "authorizer") =>
             Ctx.jwt_token = run.req[1].tokBefore)
    /\ []((current_group # None /\ run.returned = Some("Skipped")) =>
             Ctx.jwt_token = ExpectedToken(hist))

\* A case with auth_type none and a post-script, answered with status 200 (a
\* body with a data.access_token member) in a group that already holds a
\* token: the token is still the earlier one.
C37_Witness ==
    /\ current_group # None
    /\ run.req # None
    /\ run.auth = "none"
    /\ run.req[1].status = 200
    /\ run.req[1].post # None
    /\ run.req[1].tokBefore # None
    /\ Ctx.jwt_token = run.req[1].tokBefore

\* C38: a case without parse errors for which run returns Passed has sent at
\* least one request, has had its post-script evaluated at least once and has
\* fired a TestCaseEnd, whatever repeatCount its config cell holds, 0
\* included.
C38_PassedCaseHasRun ==
    (~run.hadErrors /\ run.returned = Some("Passed")) =>
        /\ run.sends >= 1
        /\ run.posts >= 1
        /\ Cardinality(RunEvents("TestCaseEnd")) >= 1

\* C39: exec_duration of a group is the sum of the durations of the sends of
\* its cases: it starts at 0 and the return of a run adds the durations of
\* all the sends of that run, nothing for a Skipped case and all n of them
\* for a case that ran n iterations; no other step changes it.
C39_GroupDurationIsSumOfSends ==
    /\ []((current_group # None /\ hist.dispatched = <<>>) => Group.exec_duration = 0)
    /\ [][ SameGroupStep =>
             current_group'[1].exec_duration - current_group[1].exec_duration
                = (IF RunReturns THEN run'.sendTime ELSE 0) ]_vars

====
